---- MODULE Spec2Model ----
(***************************************************************************)
(* Model of the Hub class of src/virginmedia.py: the session state, the    *)
(* resilient request layer (_get), login/logout, the context-manager and   *)
(* destructor hooks, snmp_get / snmp_set and apply_settings.               *)
(*                                                                         *)
(* The program is a stack of Python calls.  Every frame of `stack` is one  *)
(* active method call; `ret` holds what the callee that has just finished  *)
(* handed to its caller (a value or a propagating exception).  The device  *)
(* is nondeterministic: each HTTP request is answered by any response of   *)
(* Responses or by a transport exception of TransportErrors.               *)
(***************************************************************************)
EXTENDS Integers, Sequences, FiniteSets, TLC

\* ---------------------------------------------------------------- bounds
\* number of distinct credential texts the device hands out
MaxTokens == 2
\* number of change-making snmp_set calls batched before an apply_settings
MaxSets == 2
\* number of lines of a walk response text
MaxLines == 5

\* ------------------------------------------------------ program constants
Default401 == 5
Default500 == 3
LoginRetry401AsDefault == Default401
LoginRetry401 == 0
LogoutRetry401 == 0
InitialSleep == 1
NotModified == 304
Unauthorized == 401
ServerError == 500

CommitOid == "1.3.6.1.4.1.4115.1.20.1.1.9.0"
AuthOid == "1.3.6.1.4.1.4115.1.20.1.1.5.16.1.2.1"
OtherOid == "1.3.6.1.4.1.4115.1.20.1.1.5.7.0"

\* ----------------------------------------------------------- value domains
NoneV == "None"
\* self._credential is None (credential texts are numbered from 1)
NoCredential == 0
Tokens == 1..MaxTokens

\* usernames a caller passes to login(): omitted, empty, or a name
UserArgs == {NoneV, "", "admin", "bob"}
PassArgs == {"admin"}
\* value of the device's default-admin-username OID (a non-empty name)
AuthNames == {"admin"}

\* the nonce pair drawn by __init__ (one symbolic value per instance)
ConstructedNonce == "_n=12345&_=1"

\* snmp_walk has not been applied to walkText
NoWalk == [stage |-> "input"]

Statuses == {200, NotModified, Unauthorized, 404, ServerError}
TransportErrors == {"ConnectionError", "Timeout"}

\* Responses of the device.  body abstracts resp.content:
\*   empty       empty content
\*   garbage     non-empty, neither JSON nor a base64+JSON envelope
\*   json_nokey  a JSON map without the requested OID
\*   json_key    a JSON map with the requested OID (text = its value)
\*   envelope    a base64+JSON login envelope (text = resp.text)
\*   b64_nonmap  base64 of a JSON value that is not a map ([], null, 1, ...)
\* The body of a 4xx/5xx response is never read by the code, so it is
\* left empty; a 304 comes with no body or with a JSON map.
Responses ==
       {[status |-> s, body |-> "empty", text |-> NoneV] : s \in Statuses}
  \cup {[status |-> 200, body |-> b, text |-> NoneV] :
            b \in {"garbage", "b64_nonmap"}}
  \cup {[status |-> s, body |-> "json_nokey", text |-> NoneV] :
            s \in {200, NotModified}}
  \cup {[status |-> s, body |-> "json_key", text |-> n] :
            s \in {200, NotModified}, n \in AuthNames}
  \cup {[status |-> 200, body |-> "envelope", text |-> t] : t \in Tokens}

VARIABLES
  credential,   \* self._credential
  username,     \* self._username
  password,     \* self._password
  unapplied,    \* self._unapplied_settings
  alive,        \* FALSE once __del__ has run
  stack,        \* active calls, innermost last
  ret,          \* result handed to the caller by the call that just ended
  sent,         \* HTTP requests sent since the current top-level call began
  loginSent,    \* of those, requests to the login endpoint
  commitWrites, \* snmp_set calls on CommitOid since the top-level call began
  changes,      \* caller's snmp_set calls that returned True since the last
                \* apply_settings that completed
  nonce,        \* self._nonce / self._nonce_str
  lastAuth,     \* the login/logout event that completed last
  attrs,        \* self._modelname and self._family
  walkText,     \* text of a walk response (input of the walk post-processing)
  walkOut,      \* what snmp_walk makes of walkText
  table,        \* a walk result and column spec, and what snmp_table makes of it
  codec,        \* a wire value or address, and what the extract_* functions return
  stats,        \* self.counters and the instrumented calls in progress
  pair          \* the attributes of two Hub instances used side by side

vars == <<credential, username, password, unapplied, alive, stack, ret,
          sent, loginSent, commitWrites, changes, nonce, lastAuth, attrs,
          walkText, walkOut, table, codec, stats, pair>>

\* the variables of the pure post-processing of walk responses
purevars == <<walkText, walkOut, table, codec, stats, pair>>

\* the variables of the other developments, while one of them runs
Unused == [stage |-> "unused"]

session == <<credential, username, password, unapplied>>

\* ------------------------------------------------------------ call stack
NoRet == [kind |-> "none"]
Running == ret.kind = "none"
Returned == ret.kind # "none"
Idle == stack = <<>>

Top == stack[Len(stack)]
TopIs(fn, pc) == /\ stack # <<>>
                 /\ Top.fn = fn
                 /\ Top.pc = pc
Below == SubSeq(stack, 1, Len(stack) - 1)

Ok(fn, val, info) ==
  [kind |-> "ok", fn |-> fn, exc |-> NoneV, val |-> val, info |-> info]
Raise(fn, exc, info) ==
  [kind |-> "exc", fn |-> fn, exc |-> exc, val |-> NoneV, info |-> info]

\* ------------------------------------------------------- pure code pieces
\* Hub.is_loggedin
is_loggedin == credential # NoCredential

\* Python truthiness of a username argument (`if not username`)
Truthy(u) == u # NoneV /\ u # ""

\* _get: `retry401 > 0 and self.is_loggedin`, evaluated after the decrement
Retry401Always(r, loggedin) == r > 0
Retry401Inclusive(r, loggedin) == r >= 0 /\ loggedin
Retry401(r, loggedin) == r > 0 /\ loggedin

\* _get: `retry500 > 0`, evaluated after the decrement
Retry500Inclusive(r) == r >= 0
Retry500(r) == r > 0

\* _get: `sleep *= 2`
NextSleepSame(s) == s
NextSleep(s) == s * 2

\* requests.Response.raise_for_status: raises for 400 <= status < 600
RaisesForStatusNon2xx(status) == status >= 300 /\ status < 600
RaisesForStatus(status) == status >= 400 /\ status < 600

\* frames
\* n is the nonce the caller put in the URL or the params (NoneV: none)
GetFrame(url, oid, r401, r500, n) ==
  [fn |-> "_get", pc |-> "loop", url |-> url, oid |-> oid, nonce |-> n,
   retry401 |-> r401, retry500 |-> r500, sleep |-> InitialSleep,
   init401 |-> r401, init500 |-> r500,
   resps |-> <<>>, authd |-> <<>>, relogins |-> 0, sleeps |-> <<>>,
   cookie |-> NoCredential]

LoginFrame(u, p) ==
  [fn |-> "login", pc |-> "start", username |-> u, password |-> p,
   sent0 |-> 0, before |-> <<>>]

\* what a finished login reports: the body of the answer to its login
\* request (NoneV when there was none), the number of answers its _get
\* received, whether the session is still as it was when the caller called
\* login (before login itself stores anything; only CallLoginFrom keeps a
\* record of the session), and the number of login requests sent since it
\* built its own
LoginInfo(f, body, gets) ==
  [username |-> f.username, body |-> body, gets |-> gets,
   loginReqs |-> loginSent - f.sent0,
   kept |-> \/ f.before = <<>>
            \/ f.before = <<credential, username, password, attrs>>]

\* _get: `if self._credential: cookies={"credential": self._credential}`
CookieStale(f, cred) == IF f.resps # <<>> THEN f.cookie ELSE cred
Cookie(f, cred) == cred

\* what a finished _get reports about itself
GetInfo(f, final) ==
  [url |-> f.url, oid |-> f.oid, init401 |-> f.init401,
   init500 |-> f.init500, resps |-> f.resps, authd |-> f.authd,
   relogins |-> f.relogins, sleeps |-> f.sleeps, final |-> final,
   nonce |-> f.nonce, cookie |-> f.cookie]

\* self._modelname and self._family: None after construction, taken from
\* the decoded envelope by a login that got as far as storing the session
NoAttrs == [modelname |-> NoneV, family |-> NoneV]
DeviceAttrs == [modelname |-> "hub3", family |-> "arris"]

HubInit ==
  /\ credential = NoCredential
  /\ username = NoneV
  /\ password = NoneV
  /\ unapplied = FALSE
  /\ alive = TRUE
  /\ stack = <<>>
  /\ ret = NoRet
  /\ sent = 0
  /\ loginSent = 0
  /\ commitWrites = 0
  /\ changes = 0
  /\ nonce = ConstructedNonce
  /\ lastAuth = "none"
  /\ attrs = NoAttrs

Init ==
  /\ HubInit
  /\ walkText = <<>>
  /\ walkOut = NoWalk
  /\ table = Unused
  /\ codec = Unused
  /\ stats = Unused
  /\ pair = Unused

\* ------------------------------------------------------------------ _get
\* One pass of the `while True` loop of _get: send the request with the
\* credential cookie when one is held, receive the answer `r`, then take
\* the 401 branch, the 500 branch, or leave the loop and return / raise.
GetRespond(f, r) ==
  LET st   == r.status
      r401 == IF st = Unauthorized THEN f.retry401 - 1 ELSE f.retry401
      seen == [f EXCEPT !.resps = Append(f.resps, st),
                        !.authd = Append(f.authd, is_loggedin),
                        !.cookie = Cookie(f, credential),
                        !.retry401 = r401]
  IN
  IF st = Unauthorized /\ Retry401(r401, is_loggedin)
  THEN \* self.login(username=self._username, password=self._password)
       /\ stack' = Below \o
                   <<[seen EXCEPT !.pc = "relogin",
                                  !.relogins = f.relogins + 1],
                     LoginFrame(username, password)>>
       /\ ret' = NoRet
  ELSE LET r500 == IF st = ServerError THEN f.retry500 - 1
                                       ELSE f.retry500
           seen5 == [seen EXCEPT !.retry500 = r500]
       IN
       IF st = ServerError /\ Retry500(r500)
       THEN \* time.sleep(sleep); sleep *= 2; continue
            /\ stack' = Below \o
                        <<[seen5 EXCEPT !.sleeps = Append(f.sleeps, f.sleep),
                                        !.sleep = NextSleep(f.sleep)]>>
            /\ ret' = NoRet
       ELSE \* break; resp.raise_for_status(); 401 -> AccessDenied; return
            /\ stack' = Below
            /\ ret' = IF RaisesForStatus(st)
                      THEN Raise("_get", "HTTPError", GetInfo(seen5, "response"))
                      ELSE IF st = Unauthorized
                      THEN Raise("_get", "AccessDenied", GetInfo(seen5, "response"))
                      ELSE Ok("_get", r, GetInfo(seen5, "response"))

GetRequest ==
  /\ TopIs("_get", "loop")
  /\ Running
  /\ sent' = sent + 1
  /\ loginSent' = IF Top.url = "login" THEN loginSent + 1 ELSE loginSent
  /\ \/ \E r \in Responses : GetRespond(Top, r)
     \/ \E e \in TransportErrors :
          \* requests.get raises: the exception leaves _get at once
          /\ stack' = Below
          /\ ret' = Raise("_get", e,
                          GetInfo([Top EXCEPT !.cookie =
                                     Cookie(Top, credential)], "transport"))
  /\ UNCHANGED <<session, alive, commitWrites, changes,
                 nonce, attrs, lastAuth, purevars>>

\* the re-login started by the 401 branch has ended
GetAfterLogin ==
  /\ TopIs("_get", "relogin")
  /\ Returned
  /\ IF ret.kind = "exc"
     THEN /\ stack' = Below
          /\ ret' = Raise("_get", ret.exc, GetInfo(Top, "relogin"))
     ELSE /\ stack' = Below \o <<[Top EXCEPT !.pc = "loop"]>>
          /\ ret' = NoRet
  /\ UNCHANGED <<session, alive, sent, loginSent, commitWrites, changes,
                 nonce, attrs, lastAuth, purevars>>

\* ----------------------------------------------------------------- login
\* login builds the request: `username + ':' + password` needs a string
\* password, then self._get('login', retry401=0, ...)
LoginRequest(f) ==
  IF f.password = NoneV
  THEN /\ stack' = Below
       /\ ret' = Raise("login", "TypeError", LoginInfo(f, NoneV, 0))
  ELSE /\ stack' = Below \o
                   <<[f EXCEPT !.pc = "get", !.sent0 = loginSent],
                     GetFrame("login", NoneV, LoginRetry401, Default500,
                              nonce)>>
       /\ ret' = NoRet

\* `if not username: username = self.auth_username`: the attribute read is
\* an snmp_get of AuthOid
LoginStart ==
  /\ TopIs("login", "start")
  /\ Running
  /\ IF ~Truthy(Top.username)
     THEN /\ stack' = Below \o
                      <<[Top EXCEPT !.pc = "user"],
                        [fn |-> "snmp_get", pc |-> "start", oid |-> AuthOid]>>
          /\ ret' = NoRet
     ELSE LoginRequest(Top)
  /\ UNCHANGED <<session, alive, sent, loginSent, commitWrites, changes,
                 nonce, attrs, lastAuth, purevars>>

LoginGotUser ==
  /\ TopIs("login", "user")
  /\ Returned
  /\ IF ret.kind = "exc"
     THEN /\ stack' = Below
          /\ ret' = Raise("login", ret.exc, LoginInfo(Top, NoneV, 0))
     ELSE LoginRequest([Top EXCEPT !.username = ret.val])
  /\ UNCHANGED <<session, alive, sent, loginSent, commitWrites, changes,
                 nonce, attrs, lastAuth, purevars>>

\* the body of a login response is accepted when it is non-empty and
\* json.loads(base64.b64decode(body)) succeeds
LoginAccepts(body) == body # "empty" /\ body \in {"envelope", "b64_nonmap"}

\* `attrs.get(...)` needs attrs to be a dict
HasGet(body) == body = "envelope"

AttrsAfterLoginEager(body, old) == DeviceAttrs
AttrsAfterLogin(body, old) ==
  IF LoginAccepts(body) /\ HasGet(body) THEN DeviceAttrs ELSE old

LoginGotResp ==
  /\ TopIs("login", "get")
  /\ Returned
  /\ stack' = Below
  /\ IF ret.kind = "exc"
     THEN /\ ret' = Raise("login", ret.exc,
                          LoginInfo(Top, NoneV, Len(ret.info.resps)))
          /\ UNCHANGED <<credential, username, password, lastAuth>>
     ELSE IF ~LoginAccepts(ret.val.body)
     THEN /\ ret' = Raise("login", "LoginFailed",
                          LoginInfo(Top, ret.val.body, Len(ret.info.resps)))
          /\ UNCHANGED <<credential, username, password, lastAuth>>
     ELSE IF ~HasGet(ret.val.body)
     THEN /\ ret' = Raise("login", "AttributeError",
                          LoginInfo(Top, ret.val.body, Len(ret.info.resps)))
          /\ UNCHANGED <<credential, username, password, lastAuth>>
     ELSE /\ credential' = ret.val.text
          /\ username' = Top.username
          /\ password' = Top.password
          /\ lastAuth' = "login"
          /\ ret' = Ok("login", NoneV,
                       LoginInfo(Top, ret.val.body, Len(ret.info.resps)))
  /\ attrs' = AttrsAfterLogin(IF ret.kind = "exc" THEN NoneV ELSE ret.val.body,
                              attrs)
  /\ UNCHANGED <<unapplied, alive, sent, loginSent, commitWrites, changes,
                 nonce, purevars>>

\* ---------------------------------------------------------------- logout
\* `if self.is_loggedin:`
LogoutNeededAlways(loggedin) == TRUE
LogoutNeeded(loggedin) == loggedin

LogoutStart ==
  /\ TopIs("logout", "start")
  /\ Running
  /\ IF LogoutNeeded(is_loggedin)
     THEN /\ stack' = Below \o
                      <<[Top EXCEPT !.pc = "get"],
                        GetFrame("logout", NoneV, LogoutRetry401, Default500,
                                 nonce)>>
          /\ ret' = NoRet
          /\ UNCHANGED lastAuth
     ELSE /\ stack' = Below
          /\ ret' = Ok("logout", NoneV, [requested |-> FALSE,
                                         afterLogout |-> Top.afterLogout])
          /\ lastAuth' = "logout"
  /\ UNCHANGED <<session, alive, sent, loginSent, commitWrites, changes,
                 nonce, attrs, purevars>>

\* the `finally:` clause of logout runs however the request ended
LogoutClearsOnSuccess(kind) == kind = "ok"
LogoutClears(kind) == TRUE

\* `self._username = None`
UsernameAfterLogoutKept(old) == old
UsernameAfterLogout(old) == NoneV

LogoutDone ==
  /\ TopIs("logout", "get")
  /\ Returned
  /\ stack' = Below
  /\ IF LogoutClears(ret.kind)
     THEN /\ credential' = NoCredential
          /\ username' = UsernameAfterLogout(username)
          /\ password' = NoneV
     ELSE UNCHANGED <<credential, username, password>>
  /\ lastAuth' = "logout"
  /\ LET info == [requested |-> TRUE, afterLogout |-> Top.afterLogout]
     IN ret' = IF ret.kind = "exc" THEN Raise("logout", ret.exc, info)
                                   ELSE Ok("logout", NoneV, info)
  /\ UNCHANGED <<unapplied, alive, sent, loginSent, commitWrites, changes,
                 nonce, attrs, purevars>>

\* ------------------------------------------------------ __exit__, __del__
ExitStart ==
  /\ TopIs("__exit__", "start")
  /\ Running
  /\ stack' = Below \o <<[Top EXCEPT !.pc = "logout"],
                         [fn |-> "logout", pc |-> "start",
                          afterLogout |-> FALSE]>>
  /\ ret' = NoRet
  /\ UNCHANGED <<session, alive, sent, loginSent, commitWrites, changes,
                 nonce, attrs, lastAuth, purevars>>

\* `except requests.exceptions.HTTPError:` ConnectionError and Timeout
\* derive from RequestException, not from HTTPError
CaughtByExit(exc) == exc = "HTTPError"

\* __exit__ returns False (the exception of the with-body, if any, goes on
\* propagating) or raises the logout failure
ExitDone ==
  /\ TopIs("__exit__", "logout")
  /\ Returned
  /\ stack' = Below
  /\ LET info == [exc_type |-> Top.exc_type, logoutExc |-> ret.exc]
     IN ret' = IF ret.kind = "exc"
                  /\ (~CaughtByExit(ret.exc) \/ ~Top.exc_type)
               THEN Raise("__exit__", ret.exc, info)
               ELSE Ok("__exit__", FALSE, info)
  /\ UNCHANGED <<session, alive, sent, loginSent, commitWrites, changes,
                 nonce, attrs, lastAuth, purevars>>

DelStart ==
  /\ TopIs("__del__", "start")
  /\ Running
  /\ stack' = Below \o <<[Top EXCEPT !.pc = "logout"],
                         [fn |-> "logout", pc |-> "start",
                          afterLogout |-> FALSE]>>
  /\ ret' = NoRet
  /\ UNCHANGED <<session, alive, sent, loginSent, commitWrites, changes,
                 nonce, attrs, lastAuth, purevars>>

\* an exception that leaves __del__ is reported by the interpreter and
\* dropped: it reaches no caller
DelDone ==
  /\ TopIs("__del__", "logout")
  /\ Returned
  /\ stack' = Below
  /\ ret' = Ok("__del__", NoneV, [logoutExc |-> ret.exc])
  /\ alive' = FALSE
  /\ UNCHANGED <<session, sent, loginSent, commitWrites, changes,
                 nonce, attrs, lastAuth, purevars>>

\* ------------------------------------------------- snmp_get / snmp_gets
SnmpGetStart ==
  /\ TopIs("snmp_get", "start")
  /\ Running
  /\ stack' = Below \o
              <<[Top EXCEPT !.pc = "get"],
                GetFrame("snmpGet", Top.oid, Default401, Default500, nonce)>>
  /\ ret' = NoRet
  /\ UNCHANGED <<session, alive, sent, loginSent, commitWrites, changes,
                 nonce, attrs, lastAuth, purevars>>

\* json.loads(resp.content), then resp[oid]
SnmpGetDone ==
  /\ TopIs("snmp_get", "get")
  /\ Returned
  /\ stack' = Below
  /\ LET info == [oid |-> Top.oid]
     IN ret' = IF ret.kind = "exc" THEN Raise("snmp_get", ret.exc, info)
               ELSE IF ret.val.body = "json_key"
                    THEN Ok("snmp_get", ret.val.text, info)
               ELSE IF ret.val.body = "json_nokey"
                    THEN Raise("snmp_get", "KeyError", info)
               ELSE Raise("snmp_get", "ValueError", info)
  /\ UNCHANGED <<session, alive, sent, loginSent, commitWrites, changes,
                 nonce, attrs, lastAuth, purevars>>

\* -------------------------------------------------------------- snmp_set
SnmpSetStart ==
  /\ TopIs("snmp_set", "start")
  /\ Running
  /\ stack' = Below \o
              <<[fn |-> "snmp_set", pc |-> "get", oid |-> Top.oid,
                 before |-> unapplied],
                GetFrame("snmpSet", Top.oid, Default401, Default500, nonce)>>
  /\ ret' = NoRet
  /\ commitWrites' = IF Top.oid = CommitOid THEN commitWrites + 1
                                            ELSE commitWrites
  /\ UNCHANGED <<session, alive, sent, loginSent, changes,
                 nonce, attrs, lastAuth, purevars>>

\* `if resp.status_code == 304: return False`
SetUnchangedNever(status) == FALSE
SetUnchanged(status) == status = NotModified

\* `if not oid in resp.json().keys(): raise SNMPSetError(...)`
KeyMissingIgnored(body) == FALSE
KeyMissing(body) == body = "json_nokey"

\* resp.raise_for_status(); the key test on resp.json(); the 304 test;
\* self._unapplied_settings = True
SnmpSetDone ==
  /\ TopIs("snmp_set", "get")
  /\ Returned
  /\ stack' = Below
  /\ LET info == [oid |-> Top.oid, before |-> Top.before,
                  status |-> IF ret.kind = "ok" THEN ret.val.status ELSE 0,
                  body |-> IF ret.kind = "ok" THEN ret.val.body ELSE NoneV]
     IN
     IF ret.kind = "exc"
     THEN /\ ret' = Raise("snmp_set", ret.exc, info)
          /\ UNCHANGED <<unapplied, changes>>
     ELSE IF RaisesForStatus(ret.val.status)
     THEN /\ ret' = Raise("snmp_set", "HTTPError", info)
          /\ UNCHANGED <<unapplied, changes>>
     ELSE IF ret.val.body \notin {"json_key", "json_nokey"}
     THEN /\ ret' = Raise("snmp_set", "ValueError", info)
          /\ UNCHANGED <<unapplied, changes>>
     ELSE IF KeyMissing(ret.val.body)
     THEN /\ ret' = Raise("snmp_set", "SNMPSetError", info)
          /\ UNCHANGED <<unapplied, changes>>
     ELSE IF SetUnchanged(ret.val.status)
     THEN /\ ret' = Ok("snmp_set", FALSE, info)
          /\ UNCHANGED <<unapplied, changes>>
     ELSE /\ ret' = Ok("snmp_set", TRUE, info)
          /\ unapplied' = TRUE
          /\ changes' = IF Len(stack) = 1 THEN changes + 1 ELSE changes
  /\ UNCHANGED <<credential, username, password, alive, sent, loginSent,
                 commitWrites,
                 nonce, attrs, lastAuth, purevars>>

\* -------------------------------------------------------- apply_settings
\* `if not self._unapplied_settings: return`
ApplyNeededAlways(flag) == TRUE
ApplyNeeded(flag) == flag

ApplyStart ==
  /\ TopIs("apply_settings", "start")
  /\ Running
  /\ IF ~ApplyNeeded(unapplied)
     THEN /\ stack' = Below
          /\ ret' = Ok("apply_settings", NoneV,
                       [pending |-> FALSE, changes |-> changes,
                        afterApply |-> Top.afterApply])
     ELSE /\ stack' = Below \o
                      <<[Top EXCEPT !.pc = "set", !.changes = changes],
                        [fn |-> "snmp_set", pc |-> "start", oid |-> CommitOid]>>
          /\ ret' = NoRet
  /\ UNCHANGED <<session, alive, sent, loginSent, commitWrites, changes,
                 nonce, attrs, lastAuth, purevars>>

\* `self._unapplied_settings = False` after the commit write returned
FlagAfterApplyKept == TRUE
FlagAfterApply == FALSE

\* the commit write raised: the exception leaves apply_settings before
\* the assignment
FlagAfterFailedApplyCleared(flag) == FALSE
FlagAfterFailedApply(flag) == flag

ApplyDone ==
  /\ TopIs("apply_settings", "set")
  /\ Returned
  /\ stack' = Below
  /\ LET info == [pending |-> TRUE, changes |-> Top.changes,
                  afterApply |-> Top.afterApply]
     IN
     IF ret.kind = "exc"
     THEN /\ ret' = Raise("apply_settings", ret.exc, info)
          /\ unapplied' = FlagAfterFailedApply(unapplied)
          /\ UNCHANGED changes
     ELSE /\ ret' = Ok("apply_settings", NoneV, info)
          /\ unapplied' = FlagAfterApply
          /\ changes' = 0
  /\ UNCHANGED <<credential, username, password, alive, sent, loginSent,
                 commitWrites,
                 nonce, attrs, lastAuth, purevars>>

\* ------------------------------------------------------------- snmp_walk
\* the request of snmp_walk; what it makes of the response text is
\* SnmpWalkResult below
SnmpWalkStart ==
  /\ TopIs("snmp_walk", "start")
  /\ Running
  /\ stack' = Below \o
              <<[Top EXCEPT !.pc = "get"],
                GetFrame("walk", Top.oid, Default401, Default500, nonce)>>
  /\ ret' = NoRet
  /\ UNCHANGED <<session, alive, sent, loginSent, commitWrites, changes,
                 nonce, attrs, lastAuth, purevars>>

SnmpWalkDone ==
  /\ TopIs("snmp_walk", "get")
  /\ Returned
  /\ stack' = Below
  /\ LET info == [oid |-> Top.oid]
     IN ret' = IF ret.kind = "exc" THEN Raise("snmp_walk", ret.exc, info)
               ELSE IF ret.val.body \in {"json_key", "json_nokey"}
                    THEN Ok("snmp_walk", ret.val.body, info)
               ELSE Raise("snmp_walk", "ValueError", info)
  /\ UNCHANGED <<session, alive, sent, loginSent, commitWrites, changes,
                 nonce, attrs, lastAuth, purevars>>

\* ---------------------------------------------------------- lanIPAddress
\* json.loads(self._get('getPreLoginData').content)["gwaddr"]: the URL is
\* the bare endpoint name
LanStart ==
  /\ TopIs("lanIPAddress", "start")
  /\ Running
  /\ stack' = Below \o
              <<[Top EXCEPT !.pc = "get"],
                GetFrame("getPreLoginData", NoneV, Default401, Default500,
                         NoneV)>>
  /\ ret' = NoRet
  /\ UNCHANGED <<session, alive, sent, loginSent, commitWrites, changes,
                 nonce, attrs, lastAuth, purevars>>

LanDone ==
  /\ TopIs("lanIPAddress", "get")
  /\ Returned
  /\ stack' = Below
  /\ ret' = IF ret.kind = "exc" THEN Raise("lanIPAddress", ret.exc, <<>>)
            ELSE IF ret.val.body = "json_key"
                 THEN Ok("lanIPAddress", ret.val.text, <<>>)
            ELSE IF ret.val.body = "json_nokey"
                 THEN Raise("lanIPAddress", "KeyError", <<>>)
            ELSE Raise("lanIPAddress", "ValueError", <<>>)
  /\ UNCHANGED <<session, alive, sent, loginSent, commitWrites, changes,
                 nonce, attrs, lastAuth, purevars>>

\* ------------------------------------------------------- top-level calls
\* a caller invokes a method of the live instance while no call is active
Call(frame) ==
  /\ stack' = <<frame>>
  /\ ret' = NoRet
  /\ sent' = 0
  /\ loginSent' = 0
  /\ commitWrites' = 0
  /\ UNCHANGED <<session, alive, changes,
                 nonce, attrs, lastAuth, purevars>>

CallLogin ==
  /\ Idle /\ alive
  /\ \E u \in UserArgs, p \in PassArgs : Call(LoginFrame(u, p))

\* the same call, keeping a record of the session as it is when login is
\* called
CallLoginFrom ==
  /\ Idle /\ alive
  /\ \E u \in UserArgs, p \in PassArgs :
       Call([LoginFrame(u, p) EXCEPT
               !.before = <<credential, username, password, attrs>>])

CallLogout ==
  /\ Idle /\ alive
  /\ Call([fn |-> "logout", pc |-> "start",
           afterLogout |-> (Returned /\ ret.fn = "logout")])

\* leaving a with-block, with (exc_type) or without an exception in flight
CallExit ==
  /\ Idle /\ alive
  /\ \E e \in BOOLEAN :
       Call([fn |-> "__exit__", pc |-> "start", exc_type |-> e])

CallDel ==
  /\ Idle /\ alive
  /\ Call([fn |-> "__del__", pc |-> "start"])

CallSnmpGet ==
  /\ Idle /\ alive
  /\ Call([fn |-> "snmp_get", pc |-> "start", oid |-> OtherOid])

CallSnmpSet ==
  /\ Idle /\ alive
  /\ changes < MaxSets
  /\ Call([fn |-> "snmp_set", pc |-> "start", oid |-> OtherOid])

CallSnmpWalk ==
  /\ Idle /\ alive
  /\ Call([fn |-> "snmp_walk", pc |-> "start", oid |-> OtherOid])

CallLan ==
  /\ Idle /\ alive
  /\ Call([fn |-> "lanIPAddress", pc |-> "start"])

CallApply ==
  /\ Idle /\ alive
  /\ Call([fn |-> "apply_settings", pc |-> "start", changes |-> 0,
           afterApply |-> (ret.kind = "ok" /\ ret.fn = "apply_settings")])

\* the session, the context-manager hooks and the reads and writes of
\* single OIDs
Next ==
  \/ CallLogin \/ CallLogout \/ CallExit \/ CallDel
  \/ CallSnmpGet \/ CallSnmpSet \/ CallApply
  \/ GetRequest \/ GetAfterLogin
  \/ LoginStart \/ LoginGotUser \/ LoginGotResp
  \/ LogoutStart \/ LogoutDone
  \/ ExitStart \/ ExitDone \/ DelStart \/ DelDone
  \/ SnmpGetStart \/ SnmpGetDone
  \/ SnmpSetStart \/ SnmpSetDone
  \/ ApplyStart \/ ApplyDone

Spec == Init /\ [][Next]_vars

\* the session and the operations that only read from the device: the
\* requests to login, logout, snmpGet, walk and getPreLoginData
ReadNext ==
  \/ CallLogin \/ CallLogout \/ CallSnmpWalk \/ CallLan
  \/ GetRequest \/ GetAfterLogin
  \/ LoginStart \/ LoginGotUser \/ LoginGotResp
  \/ LogoutStart \/ LogoutDone
  \/ SnmpGetStart \/ SnmpGetDone
  \/ SnmpWalkStart \/ SnmpWalkDone \/ LanStart \/ LanDone

ReadSpec == Init /\ [][ReadNext]_vars

\* login, logout and reads of one OID, each login keeping a record of the
\* session it was called with
LoginNext ==
  \/ CallLoginFrom \/ CallLogout \/ CallSnmpGet
  \/ GetRequest \/ GetAfterLogin
  \/ LoginStart \/ LoginGotUser \/ LoginGotResp
  \/ LogoutStart \/ LogoutDone
  \/ SnmpGetStart \/ SnmpGetDone

LoginSpec == Init /\ [][LoginNext]_vars

\* ======================================================================
\* snmp_walk: what it makes of the response text
\* ======================================================================
\* A text is a sequence of tokens: line feeds, braces, commas, "k":"v"
\* pairs and raw (unquoted) text.
ErrText == "Error in OID formatting!"
FinishText == "Finish"

Tok(t, k, v) == [t |-> t, k |-> k, v |-> v]
NL == Tok("nl", "", "")
LB == Tok("lb", "", "")
RB == Tok("rb", "", "")
COMMA == Tok("comma", "", "")
Raw(v) == Tok("raw", "", v)
Pair(k, v) == Tok("pair", k, v)

\* the lines a device answers a walk with: braces, pairs (with or without
\* the separating comma; one has the error text as its value), the
\* spurious error line, an empty line
WalkLines ==
  { <<LB>>, <<RB>>,
    <<Pair("a", ErrText), COMMA>>, <<Pair("1", "x"), COMMA>>,
    <<Pair("a", ErrText)>>, <<Pair("1", FinishText)>>, <<Pair("1", "x")>>,
    <<Raw(ErrText)>>, <<>> }

\* str.split("\n")
RECURSIVE Split(_)
Split(text) ==
  IF \A i \in 1..Len(text) : text[i] # NL
  THEN <<text>>
  ELSE LET i == CHOOSE i \in 1..Len(text) :
                  /\ text[i] = NL
                  /\ \A j \in 1..(i - 1) : text[j] # NL
       IN <<SubSeq(text, 1, i - 1)>>
            \o Split(SubSeq(text, i + 1, Len(text)))

\* "\n".join(lines)
RECURSIVE Join(_)
Join(lines) ==
  IF lines = <<>> THEN <<>>
  ELSE IF Len(lines) = 1 THEN lines[1]
  ELSE lines[1] \o <<NL>> \o Join(Tail(lines))

\* `x != "Error in OID formatting!"` negated: the line is the error text
IsSpuriousSubstring(line) == \E i \in 1..Len(line) : line[i].v = ErrText
IsSpurious(line) == line = <<Raw(ErrText)>>

\* [x for x in jsondata.split("\n") if x != "Error in OID formatting!"]
FilterLines(lines) == SelectSeq(lines, LAMBDA x : ~IsSpurious(x))

EmptyMap == [k \in {} |-> ""]

\* the map of a sequence of pairs; a later pair replaces an earlier one
\* with the same key
RECURSIVE MapOf(_)
MapOf(pairs) ==
  IF pairs = <<>> THEN EmptyMap
  ELSE LET p == pairs[Len(pairs)]
       IN (p.k :> p.v) @@ MapOf(SubSeq(pairs, 1, Len(pairs) - 1))

\* json.loads(text): line feeds are white space; the text must be an
\* object `{ pair , pair ... }`
JsonLoads(text) ==
  LET toks  == SelectSeq(text, LAMBDA t : t # NL)
      n     == Len(toks)
      inner == SubSeq(toks, 2, n - 1)
      m     == Len(inner)
      valid == /\ n >= 2
               /\ toks[1] = LB
               /\ toks[n] = RB
               /\ m = 0 \/ m % 2 = 1
               /\ \A i \in 1..m :
                    IF i % 2 = 1 THEN inner[i].t = "pair"
                                 ELSE inner[i] = COMMA
  IN IF valid
     THEN [ok |-> TRUE,
           map |-> MapOf(SelectSeq(inner, LAMBDA t : t.t = "pair"))]
     ELSE [ok |-> FALSE, map |-> EmptyMap]

\* `if result.get("1") == "Finish": del result["1"]`
StripFinishAlways(result) ==
  [k \in DOMAIN result \ {"1"} |-> result[k]]
StripFinish(result) ==
  IF "1" \in DOMAIN result /\ result["1"] = FinishText
  THEN [k \in DOMAIN result \ {"1"} |-> result[k]]
  ELSE result

WalkInit ==
  /\ HubInit
  \* the response text: up to MaxLines lines joined by line feeds
  /\ \E n \in 0..MaxLines :
       \E ls \in [1..n -> WalkLines] : walkText = Join(ls)
  /\ walkOut = NoWalk
  /\ table = Unused
  /\ codec = Unused
  /\ stats = Unused
  /\ pair = Unused

\* snmp_walk from the response text on: filter the lines, parse, strip
\* the final "1" entry
SnmpWalkResult ==
  /\ walkOut = NoWalk
  /\ LET jsondata == Join(FilterLines(Split(walkText)))
         loaded   == JsonLoads(jsondata)
     IN walkOut' =
          IF loaded.ok
          THEN [stage |-> "done", kind |-> "ok", jsondata |-> jsondata,
                parsed |-> loaded.map, result |-> StripFinish(loaded.map)]
          ELSE [stage |-> "done", kind |-> "exc", jsondata |-> jsondata,
                parsed |-> EmptyMap, result |-> EmptyMap]
  /\ UNCHANGED <<session, alive, stack, ret, sent, loginSent, commitWrites,
                 changes, nonce, attrs, lastAuth, walkText, table, codec, stats,
                 pair>>

WalkNext == SnmpWalkResult

WalkSpec == WalkInit /\ [][WalkNext]_vars

\* ======================================================================
\* Properties
\* ======================================================================
Last(q) == q[Len(q)]
All401(q) == \A i \in 1..Len(q) : q[i] = Unauthorized

\* a call of fn has just ended and its result is in ret
Ended(fn) == Returned /\ ret.fn = fn

\* a call of _get ended on a response (not on a failed re-login or a
\* transport exception)
GetEndedOnResponse == Ended("_get") /\ ret.info.final = "response"

\* the _get frames that are active
ActiveGets == {i \in 1..Len(stack) : stack[i].fn = "_get"}

\* ----------------------------------------------------------------- C1
\* a _get with the default 401 budget on a session that holds a credential
\* was answered 401 on every attempt and every re-login succeeded
C1_Case ==
  /\ GetEndedOnResponse
  /\ ret.info.init401 = Default401
  /\ All401(ret.info.resps)
  /\ \A i \in 1..Len(ret.info.authd) : ret.info.authd[i]

\* C1 as stated: in one call of _get with retry401=5 on a session holding
\* a credential, answered 401 every time with every re-login succeeding,
\* exactly 5 re-logins are performed and AccessDenied is surfaced on the
\* sixth 401.
C1_AsStated ==
  C1_Case => /\ ret.info.relogins = 5
             /\ Len(ret.info.resps) = 6
             /\ ret.kind = "exc"
             /\ ret.exc = "AccessDenied"

\* C1 amended: in that case exactly 4 re-logins are performed and the call
\* fails on the fifth 401, not earlier: while fewer than five 401s have
\* been received every one of them has started a re-login.
C1_FourRelogins ==
  /\ C1_Case => /\ ret.info.relogins = 4
                /\ Len(ret.info.resps) = 5
                /\ ret.kind = "exc"
  /\ \A i \in ActiveGets :
       (/\ stack[i].init401 = Default401
        /\ All401(stack[i].resps)
        /\ \A k \in 1..Len(stack[i].authd) : stack[i].authd[k])
       => /\ Len(stack[i].resps) <= 4
          /\ stack[i].relogins = Len(stack[i].resps)

C1_Witness == C1_Case /\ ret.info.url = "snmpGet"

\* ----------------------------------------------------------------- C2
C2_Case ==
  /\ Ended("_get")
  /\ ret.info.init500 = Default500
  /\ ret.info.resps = <<ServerError, ServerError, 200>>

\* C2: a _get with retry500=3 answered [500, 500, 200] returns the 200
\* response, raises nothing, and has slept exactly twice, 1 then 2.
C2_BackoffThenResult ==
  C2_Case => /\ ret.kind = "ok"
             /\ ret.val.status = 200
             /\ ret.info.sleeps = <<1, 2>>
             /\ ret.info.sleeps[1] < ret.info.sleeps[2]

C2_Witness == C2_Case /\ ret.info.url = "snmpSet"

\* ----------------------------------------------------------------- C3
\* logout ran on a LoggedIn session (it sent the logout request)
C3_Case == Ended("logout") /\ ret.info.requested

\* C3: after logout on a LoggedIn session, whether the request succeeded
\* or failed, credential, username and password are cleared and
\* is_loggedin is false.
C3_LogoutAlwaysClears ==
  C3_Case => /\ credential = NoCredential
             /\ username = NoneV
             /\ password = NoneV
             /\ ~is_loggedin

C3_Witness == C3_Case /\ ret.kind = "exc" /\ ret.exc = "Timeout"

\* ----------------------------------------------------------------- C4
\* C4 as stated: a failure of the implicit logout of __exit__ / __del__,
\* of whatever kind, is suppressed when an exception of the caller is in
\* flight, and is raised only when none is in flight.
C4_AsStated ==
  /\ (Ended("__exit__") /\ ret.info.exc_type) => ret.kind = "ok"
  /\ Ended("__del__") => ret.kind = "ok"

\* ----------------------------------------------------------------- C5
\* snmp_set ended after _get handed it a response
C5_Answered(status) == Ended("snmp_set") /\ ret.info.status = status

\* C5 as stated: a 304 answer makes snmp_set return false with the flag
\* unchanged whatever the body contains; any other success makes it
\* return true with the flag set.
C5_AsStated ==
  /\ C5_Answered(NotModified) => /\ ret.kind = "ok"
                                 /\ ret.val = FALSE
                                 /\ unapplied = ret.info.before
  /\ C5_Answered(200) => /\ ret.kind = "ok"
                         /\ ret.val = TRUE
                         /\ unapplied

C5_Results ==
  /\ (C5_Answered(NotModified) /\ ret.info.body = "json_key")
       => /\ ret.kind = "ok"
          /\ ret.val = FALSE
          /\ unapplied = ret.info.before
  /\ (C5_Answered(NotModified) /\ ret.info.body # "json_key")
       => /\ ret.kind = "exc"
          /\ ret.exc \in {"SNMPSetError", "ValueError"}
          /\ unapplied = ret.info.before
  /\ (C5_Answered(200) /\ ret.info.body = "json_key")
       => /\ ret.kind = "ok"
          /\ ret.val = TRUE
          /\ unapplied
  /\ (C5_Answered(200) /\ ret.info.body # "json_key")
       => /\ ret.kind = "exc"
          /\ unapplied = ret.info.before

\* C5 amended: a 304 answer whose body holds the written OID makes
\* snmp_set return false with the flag unchanged; a 304 answer whose body
\* lacks it makes snmp_set fail with the flag unchanged; any other success
\* whose body holds the OID makes it return true with the flag set; and
\* the flag, once set, is cleared by nothing but apply_settings.
C5_NotModifiedWithKey ==
  /\ []C5_Results
  /\ [][(unapplied /\ ~unapplied') => TopIs("apply_settings", "set")]_vars

C5_Witness ==
  /\ C5_Answered(NotModified)
  /\ ret.info.body = "json_key"
  /\ ret.info.before = FALSE
  /\ ret.info.oid = OtherOid

\* ----------------------------------------------------------------- C6
\* C6: after n >= 1 change-making snmp_set calls, an apply_settings call
\* issues exactly one write of the commit OID; when it returns, the flag is
\* false; and an apply_settings issued right after it sends no request.
\* Idle states: the flag is set exactly when n >= 1.
C6_OneCommitPerBatch ==
  /\ Idle => (unapplied <=> changes >= 1)
  /\ (Ended("apply_settings") /\ ret.info.pending)
       => /\ ret.info.changes >= 1
          /\ commitWrites = 1
          /\ (ret.kind = "ok" => ~unapplied /\ changes = 0)
  /\ (Ended("apply_settings") /\ ret.info.afterApply)
       => /\ ~ret.info.pending
          /\ sent = 0
          /\ commitWrites = 0
          /\ ~unapplied

C6_Witness ==
  /\ Ended("apply_settings")
  /\ ret.info.pending
  /\ ret.info.changes = MaxSets
  /\ ret.kind = "ok"

\* ----------------------------------------------------------------- C7
\* C7: apply_settings called while no change is pending (no snmp_set has
\* returned true since construction or the last completed apply_settings)
\* returns at once: no request is sent and no session state changes.
C7_ApplyWithoutPendingIsNoop ==
  /\ [](Idle => (changes = 0 <=> ~unapplied))
  /\ [][(TopIs("apply_settings", "start") /\ Running /\ ~unapplied)
          => /\ stack' = Below
             /\ ret'.kind = "ok"
             /\ sent' = 0
             /\ UNCHANGED <<session, alive, sent, loginSent, commitWrites,
                            changes>>]_vars

C7_Witness ==
  /\ Ended("apply_settings")
  /\ ~ret.info.pending
  /\ is_loggedin

\* ----------------------------------------------------------------- C8
\* C8 as stated: a _get that ends on a 401 response that is not retried
\* surfaces AccessDenied, not the generic HTTP error.
C8_AsStated ==
  (GetEndedOnResponse /\ Last(ret.info.resps) = Unauthorized)
    => (ret.kind = "exc" /\ ret.exc = "AccessDenied")

\* ----------------------------------------------------------------- C9
\* a 401 received while no credential was held, at position i of q
Unauth401(info, i) == info.resps[i] = Unauthorized /\ ~info.authd[i]

\* C9: a 401 received by _get while the session holds no credential is
\* never retried and starts no login: it is the last response of its call,
\* which fails on it, whatever 401 budget remains.
C9_NoReloginWhenLoggedOut ==
  /\ \A i \in ActiveGets :
       \A k \in 1..Len(stack[i].resps) : ~Unauth401(stack[i], k)
  /\ Ended("_get") =>
       \A k \in 1..Len(ret.info.resps) :
          Unauth401(ret.info, k) => /\ k = Len(ret.info.resps)
                                    /\ ret.kind = "exc"
                                    /\ ret.info.final = "response"
  /\ ~is_loggedin =>
       \A i \in 1..Len(stack) :
          stack[i].fn = "login" => (i = 1 \/ stack[i-1].fn # "_get")

C9_Witness ==
  /\ GetEndedOnResponse
  /\ ret.info.init401 = Default401
  /\ ret.info.resps = <<ServerError, Unauthorized>>
  /\ ~ret.info.authd[2]

\* ---------------------------------------------------------------- C10
\* login calls made by _get (re-logins) that are active
Relogins == {i \in 2..Len(stack) :
               stack[i].fn = "login" /\ stack[i-1].fn = "_get"}

Count500(q) == Cardinality({i \in 1..Len(q) : q[i] = ServerError})

\* the sleeps of a _get are 1, 2, 4, ...: the i-th lasts InitialSleep * 2^(i-1)
Doubling(sl) == \A i \in 1..Len(sl) : sl[i] = InitialSleep * 2^(i - 1)

\* a _get with the default 500 budget ended on a 500 answer
C11_Case ==
  /\ GetEndedOnResponse
  /\ ret.info.init500 = Default500
  /\ Last(ret.info.resps) = ServerError

\* C11 as stated: with the default budget of 3 a _get makes up to 3
\* retries, so the HTTP failure is surfaced only by a 500 that arrives
\* after three sleeps (1, 2, 4): [500, 500, 500, 200] returns the 200.
C11_AsStated ==
  C11_Case => /\ Count500(ret.info.resps) = Default500 + 1
              /\ ret.info.sleeps = <<1, 2, 4>>

\* C11 amended: every 500 that arrives while fewer than `budget` 500s have
\* been received is followed by a sleep and a retry, the sleeps being
\* 1, 2, 4, ... (doubling); the 500 that is the budget-th of the call
\* is not retried and the call fails with the HTTP failure.  With the
\* default budget of 3 that is at most 2 retries (sleeps 1, 2): the third
\* 500 fails the call.
C11_BudgetIsAttempts ==
  /\ \A i \in ActiveGets :
       /\ Doubling(stack[i].sleeps)
       /\ Len(stack[i].sleeps) = Count500(stack[i].resps)
       /\ Len(stack[i].sleeps) <= stack[i].init500 - 1
       /\ stack[i].retry500 = stack[i].init500 - Count500(stack[i].resps)
  /\ Ended("_get") =>
       /\ Doubling(ret.info.sleeps)
       /\ Len(ret.info.sleeps) <= ret.info.init500 - 1
  /\ (GetEndedOnResponse /\ Last(ret.info.resps) = ServerError)
       => /\ Count500(ret.info.resps) = ret.info.init500
          /\ Len(ret.info.sleeps) = ret.info.init500 - 1
          /\ ret.kind = "exc"
          /\ ret.exc = "HTTPError"
  /\ (GetEndedOnResponse /\ Last(ret.info.resps) # ServerError)
       => /\ Count500(ret.info.resps) < ret.info.init500
          /\ Len(ret.info.sleeps) = Count500(ret.info.resps)
  /\ C11_Case => /\ Count500(ret.info.resps) = 3
                 /\ ret.info.sleeps = <<1, 2>>

C11_Witness ==
  /\ C11_Case
  /\ ret.info.url = "snmpGet"
  /\ ret.info.resps = <<ServerError, ServerError, ServerError>>

\* ----------------------------------------------------------------- C12
\* a _get ended on a response whose status the 401 and 500 branches do not
\* handle
C12_Case ==
  /\ GetEndedOnResponse
  /\ Last(ret.info.resps) \notin {Unauthorized, ServerError}

\* C12 as stated: a final status outside 2xx (304 included) makes _get
\* fail with the transport error; such a response is never returned.
C12_AsStated ==
  (C12_Case /\ Last(ret.info.resps) \notin 200..299)
    => /\ ret.kind = "exc"
       /\ ret.exc = "HTTPError"

\* C12 amended: a final status in 400..599 makes _get fail with the HTTP
\* error; a final status below 400 (2xx, and 3xx such as 304) is returned
\* to the caller as a normal result carrying that status.
C12_ErrorStatusesFail ==
  /\ (C12_Case /\ Last(ret.info.resps) \in 400..599)
       => /\ ret.kind = "exc"
          /\ ret.exc = "HTTPError"
  /\ (C12_Case /\ Last(ret.info.resps) < 400)
       => /\ ret.kind = "ok"
          /\ ret.val.status = Last(ret.info.resps)

C12_Witness ==
  /\ C12_Case
  /\ Last(ret.info.resps) = NotModified
  /\ ret.info.url = "snmpSet"
  /\ ret.kind = "ok"

C12_WitnessError ==
  /\ C12_Case
  /\ Last(ret.info.resps) = 404
  /\ ret.kind = "exc"

\* ----------------------------------------------------------------- C13
\* C13 as stated: every request to any endpoint (getPreLoginData included)
\* carries the nonce pair generated at construction, and no operation
\* changes that nonce.
C13_AsStated ==
  /\ nonce = ConstructedNonce
  /\ \A i \in ActiveGets : stack[i].nonce = nonce
  /\ Ended("_get") => ret.info.nonce = nonce

\* ----------------------------------------------------------------- C14
\* C14: every request is sent with the credential the session holds at the
\* moment of sending (none when none is held): in every step in which the
\* innermost _get sends a request, the cookie of that request is the
\* current credential, also when the request is the retry that follows a
\* re-login; sending does not change the credential.
C14_CookieIsCurrentCredential ==
  [][(TopIs("_get", "loop") /\ Running /\ sent' = sent + 1)
       => LET n == Len(stack)
              c == IF Len(stack') >= n THEN stack'[n].cookie
                                       ELSE ret'.info.cookie
          IN /\ c = credential
             /\ credential' = credential]_vars

\* a snmpGet request was rejected with 401 while it carried one token and
\* the re-login has stored another: the request is about to be retried
C14_Witness ==
  /\ TopIs("_get", "loop")
  /\ Top.url = "snmpGet"
  /\ Top.relogins = 1
  /\ Top.resps = <<Unauthorized>>
  /\ Top.cookie # NoCredential
  /\ Top.cookie # credential
  /\ is_loggedin

\* ----------------------------------------------------------------- C15
\* a login whose request was answered with a body that is empty or not a
\* base64+JSON envelope
C15_Case ==
  /\ Ended("login")
  /\ ret.info.body \in {"empty", "garbage", "json_nokey", "json_key",
                        "b64_nonmap"}

\* C15 as stated: such a login fails with LoginFailed and is not retried:
\* the login requests sent by the call are the ones its single _get had
\* answered, the last of them with that body; none is sent after it.
C15_AsStated ==
  C15_Case => /\ ret.kind = "exc"
              /\ ret.exc = "LoginFailed"
              /\ ret.info.loginReqs = ret.info.gets

\* ----------------------------------------------------------------- C16
\* C16: is_loggedin is true exactly when the login/logout event completed
\* last was a successful login (false initially, before any such event),
\* and the LoggedIn/LoggedOut state changes only in the step that ends a
\* successful login (to LoggedIn) or a logout (to LoggedOut): no step of
\* snmp_get, snmp_set, snmp_walk, apply_settings or of a failing login
\* changes it.
C16_LoggedInIffLastEventLogin ==
  /\ [](is_loggedin <=> lastAuth = "login")
  /\ [][(is_loggedin' # is_loggedin)
          => \/ /\ TopIs("login", "get")
                /\ is_loggedin'
                /\ ret'.kind = "ok"
             \/ /\ TopIs("logout", "get")
                /\ ~is_loggedin']_vars

\* a login failed on a LoggedIn session, which stays LoggedIn
C16_Witness ==
  /\ Idle
  /\ Ended("login")
  /\ ret.exc = "LoginFailed"
  /\ is_loggedin
  /\ lastAuth = "login"

\* ----------------------------------------------------------------- C17
\* C17: the step logout takes on a LoggedOut session ends the call
\* normally, sends no request and leaves credential, username, password
\* and the unapplied-settings flag as they were; a logout that found the
\* session LoggedOut has sent nothing, and a logout called right after
\* another logout is such a call, so the two send at most one request.
C17_LogoutWhenLoggedOutIsNoop ==
  /\ [][(TopIs("logout", "start") /\ Running /\ ~is_loggedin)
          => /\ stack' = Below
             /\ ret'.kind = "ok"
             /\ ret'.fn = "logout"
             /\ sent' = sent
             /\ session' = session]_vars
  /\ []((Ended("logout") /\ ~ret.info.requested)
          => /\ ret.kind = "ok"
             /\ sent = 0)
  /\ []((Ended("logout") /\ ret.info.afterLogout)
          => /\ ~ret.info.requested
             /\ sent = 0)

\* the second of two logouts in a row has ended
C17_Witness ==
  /\ Idle
  /\ Ended("logout")
  /\ ret.info.afterLogout
  /\ ~ret.info.requested
  /\ ret.kind = "ok"
  /\ sent = 0
  /\ ~is_loggedin

\* ----------------------------------------------------------------- C18
\* snmp_set received a JSON map that lacks the written OID
C18_Case == Ended("snmp_set") /\ ret.info.body = "json_nokey"

\* C18: snmp_set fails with SNMPSetError when the response map lacks the
\* written OID (whatever the status of the response), and every snmp_set
\* that fails leaves the unapplied-settings flag at the value it had when
\* the call began.
C18_SetRejectedKeepsFlag ==
  /\ C18_Case => /\ ret.kind = "exc"
                 /\ ret.exc = "SNMPSetError"
  /\ (Ended("snmp_set") /\ ret.kind = "exc")
       => unapplied = ret.info.before
  /\ \A i \in 1..Len(stack) :
       (stack[i].fn = "snmp_set" /\ stack[i].pc = "get")
         => unapplied = stack[i].before

\* a write was rejected while an earlier change was pending
C18_Witness ==
  /\ C18_Case
  /\ ret.exc = "SNMPSetError"
  /\ ret.info.status = 200
  /\ ret.info.before
  /\ unapplied

\* ----------------------------------------------------------------- C19
\* the line that is exactly the error text
ErrLine == <<Raw(ErrText)>>

\* number of error lines among the first i lines
CountErr(lines, i) == Cardinality({j \in 1..i : lines[j] = ErrLine})

\* the tokens of the lines other than the error line, in order
RECURSIVE KeptTokens(_)
KeptTokens(lines) ==
  IF lines = <<>> THEN <<>>
  ELSE (IF Head(lines) = ErrLine THEN <<>> ELSE Head(lines))
         \o KeptTokens(Tail(lines))

WalkDone == walkOut.stage = "done"

\* C19: the text snmp_walk parses consists of the lines of the response
\* other than those exactly equal to the error text, each at its place in
\* the original order (a line that only contains the error text is kept),
\* and parsing it succeeds, with the same map, exactly when the response
\* without the error lines parses.
C19_ExactLinesRemoved ==
  WalkDone =>
    LET in  == Split(walkText)
        out == Split(walkOut.jsondata)
        ref == JsonLoads(KeptTokens(in))
    IN /\ IF CountErr(in, Len(in)) = Len(in)
          THEN walkOut.jsondata = <<>>
          ELSE /\ Len(out) = Len(in) - CountErr(in, Len(in))
               /\ \A i \in 1..Len(in) :
                    in[i] # ErrLine => out[i - CountErr(in, i)] = in[i]
       /\ (walkOut.kind = "ok") <=> ref.ok
       /\ walkOut.parsed = ref.map

\* two error lines around a pair whose value is the error text
C19_Witness ==
  /\ WalkDone
  /\ walkOut.kind = "ok"
  /\ CountErr(Split(walkText), Len(Split(walkText))) = 2
  /\ Split(walkText)[2] = ErrLine
  /\ Len(Split(walkOut.jsondata)) = 3
  /\ "a" \in DOMAIN walkOut.result
  /\ walkOut.result["a"] = ErrText

\* ----------------------------------------------------------------- C20
\* C20: the map snmp_walk returns has the key "1" exactly when the parsed
\* map has it with a value other than "Finish"; every other key of the
\* parsed map is returned, no key is added, and every returned key has
\* the value it was parsed with.
C20_FinishEntryStripped ==
  (WalkDone /\ walkOut.kind = "ok") =>
    LET parsed == walkOut.parsed
        result == walkOut.result
    IN /\ ("1" \in DOMAIN result)
            <=> ("1" \in DOMAIN parsed /\ parsed["1"] # FinishText)
       /\ DOMAIN parsed \ {"1"} \subseteq DOMAIN result
       /\ DOMAIN result \subseteq DOMAIN parsed
       /\ \A k \in DOMAIN result : result[k] = parsed[k]

C20_Witness ==
  /\ WalkDone
  /\ walkOut.kind = "ok"
  /\ DOMAIN walkOut.parsed = {"1", "a"}
  /\ walkOut.parsed["1"] = FinishText
  /\ DOMAIN walkOut.result = {"a"}

C20_WitnessKept ==
  /\ WalkDone
  /\ walkOut.kind = "ok"
  /\ DOMAIN walkOut.parsed = {"1", "a"}
  /\ walkOut.parsed["1"] = "x"
  /\ walkOut.result = walkOut.parsed

\* ------------------------------------------------- failed login (C27)
\* a login called by the caller has just ended with a failure
CallerLoginFailed ==
  /\ Idle
  /\ ret.kind = "exc"
  /\ ret.fn = "login"

\* the step ends a login, caller's or re-login, with a failure
LoginFails ==
  /\ stack # <<>>
  /\ Top.fn = "login"
  /\ ret'.kind = "exc"
  /\ ret'.fn = "login"
  /\ Len(stack') = Len(stack) - 1

\* the step is _get learning that its re-login failed
ReloginFailed ==
  /\ TopIs("_get", "relogin")
  /\ ret.kind = "exc"
  /\ stack' # stack

C27_WitnessRelogin ==
  /\ Returned
  /\ ret.fn = "_get"
  /\ ret.kind = "exc"
  /\ ret.exc = "LoginFailed"
  /\ ret.info.final = "relogin"

\* ------------------------------------------------ termination of _get (C28)
\* Reads of one OID on a hub that is either freshly constructed or logged
\* in as "admin".  Python runs a call to its end: a step of the running
\* call is always taken eventually (every request is answered or raises,
\* requests.get being given a timeout), while the caller may or may not
\* call again.
GetInit ==
  /\ \E t \in Tokens \cup {NoCredential} :
       /\ credential = t
       /\ username = IF t = NoCredential THEN NoneV ELSE "admin"
       /\ password = IF t = NoCredential THEN NoneV ELSE "admin"
       /\ attrs = IF t = NoCredential THEN NoAttrs ELSE DeviceAttrs
       /\ lastAuth = IF t = NoCredential THEN "none" ELSE "login"
  /\ unapplied = FALSE
  /\ alive = TRUE
  /\ stack = <<>>
  /\ ret = NoRet
  /\ sent = 0
  /\ loginSent = 0
  /\ commitWrites = 0
  /\ changes = 0
  /\ nonce = ConstructedNonce
  /\ walkText = <<>>
  /\ walkOut = NoWalk
  /\ table = Unused
  /\ codec = Unused
  /\ stats = Unused
  /\ pair = Unused

GetStep ==
  \/ GetRequest \/ GetAfterLogin
  \/ LoginStart \/ LoginGotResp
  \/ SnmpGetStart \/ SnmpGetDone

GetNext == CallSnmpGet \/ GetStep

GetFairSpec == GetInit /\ [][GetNext]_vars /\ WF_vars(GetStep)

\* largest number of requests of a _get with the default budgets: 4
\* retried 401s, 2 retried 500s and a final one
MostRequests == (Default401 - 1) + (Default500 - 1) + 1

C29_FailedCommitKeepsFlag ==
  /\ []((Ended("apply_settings") /\ ret.kind = "exc") => unapplied)
  /\ [][(TopIs("apply_settings", "start") /\ Running /\ unapplied)
          => /\ Len(stack') = Len(stack) + 1
             /\ stack'[Len(stack')].fn = "snmp_set"
             /\ stack'[Len(stack')].oid = CommitOid]_vars
  /\ [][(unapplied /\ ~unapplied')
          => /\ TopIs("apply_settings", "set")
             /\ ret.kind = "ok"
             /\ ret.fn = "snmp_set"]_vars

\* the device rejected the commit write and apply_settings has failed
C29_Witness ==
  /\ Ended("apply_settings")
  /\ ret.kind = "exc"
  /\ ret.exc = "SNMPSetError"
  /\ unapplied
  /\ commitWrites = 1

MaxEntries == 3

ColSegs == {"2", "3", "4"}
RowSegs == {"1", "2", "10"}
CellTexts == {"x", "y"}

\* int(text) on the row segments
IntOf == ("1" :> 1) @@ ("2" :> 2) @@ ("10" :> 10)

\* the position of a segment in the order Python gives to str
TextRank == ("1" :> 1) @@ ("10" :> 2) @@ ("2" :> 3) @@ ("3" :> 4) @@ ("4" :> 5)

\* the `columns` argument of the decorator: column segment -> field name
ColumnSpecs == { ("2" :> "a") @@ ("3" :> "b"), ("2" :> "a") }

col_num(walked_oid) == walked_oid[1]

row_num_text(walked_oid) == TextRank[walked_oid[2]]
row_num(walked_oid) == IntOf[walked_oid[2]]

AbsentCellEmpty == ""
AbsentCell == NoneV

\* sort key (row_num, col_num), compared as Python compares tuples
KeyBefore(x, y) ==
  \/ row_num(x.oid) < row_num(y.oid)
  \/ /\ row_num(x.oid) = row_num(y.oid)
     /\ TextRank[col_num(x.oid)] < TextRank[col_num(y.oid)]

\* itertools.groupby: runs of consecutive items with the same row_num
RECURSIVE GroupBy(_)
GroupBy(results) ==
  IF results = <<>> THEN <<>>
  ELSE LET k == row_num(results[1].oid)
           RECURSIVE RunLen(_)
           RunLen(i) == IF i <= Len(results) /\ row_num(results[i].oid) = k
                        THEN RunLen(i + 1) ELSE i - 1
           n == RunLen(1)
       IN <<[key |-> k, val |-> SubSeq(results, 1, n)]>>
          \o GroupBy(SubSeq(results, n + 1, Len(results)))

\* rowcls(**{columns[col_num(c)]: value ...})._replace(row_idx=key): every
\* field defaults to None, a later item of the group overrides an earlier
RowOf(columns, grp) ==
  LET names == {columns[c] : c \in DOMAIN columns}
      LastAt(nm) == CHOOSE i \in 1..Len(grp.val) :
                    /\ columns[col_num(grp.val[i].oid)] = nm
                    /\ \A j \in (i+1)..Len(grp.val) :
                         columns[col_num(grp.val[j].oid)] # nm
  IN [cells |-> [nm \in names |->
                   IF \E i \in 1..Len(grp.val) :
                        columns[col_num(grp.val[i].oid)] = nm
                   THEN grp.val[LastAt(nm)].val
                   ELSE AbsentCell],
      row_idx |-> grp.key]

TableRows(columns, items) ==
  LET results == SelectSeq(items, LAMBDA x : col_num(x.oid) \in DOMAIN columns)
      sorted  == SortSeq(results, KeyBefore)
      groups  == GroupBy(sorted)
  IN [i \in 1..Len(groups) |-> RowOf(columns, groups[i])]

\* a walk result is a dict: its OIDs are distinct, in any order
TableInit ==
  /\ HubInit
  /\ walkText = <<>>
  /\ walkOut = NoWalk
  /\ codec = Unused
  /\ stats = Unused
  /\ pair = Unused
  /\ \E columns \in ColumnSpecs :
       \E n \in 0..MaxEntries :
         \E items \in [1..n -> [oid : ColSegs \X RowSegs, val : CellTexts]] :
           /\ \A i, j \in 1..n : i # j => items[i].oid # items[j].oid
           /\ table = [stage |-> "input", columns |-> columns, items |-> items]

SnmpTableWrapper ==
  /\ table.stage = "input"
  /\ table' = [stage |-> "done", columns |-> table.columns,
               items |-> table.items,
               rows |-> TableRows(table.columns, table.items)]
  /\ UNCHANGED <<session, alive, stack, ret, sent, loginSent, commitWrites,
                 changes, nonce, attrs, lastAuth, walkText, walkOut, codec,
                 stats, pair>>

TableNext == SnmpTableWrapper

TableSpec == TableInit /\ [][TableNext]_vars

TableDone == table.stage = "done"

\* the entries of the walk result whose column is declared
InSpec == {i \in 1..Len(table.items) :
             col_num(table.items[i].oid) \in DOMAIN table.columns}

\* C21: the table has exactly one row per distinct row index among the
\* in-spec entries, and the rows come in strictly ascending integer order
\* of row index.
C21_OneRowPerIndexAscending ==
  TableDone =>
    /\ {table.rows[i].row_idx : i \in 1..Len(table.rows)}
         = {IntOf[table.items[i].oid[2]] : i \in InSpec}
    /\ \A i, j \in 1..Len(table.rows) :
         i < j => table.rows[i].row_idx < table.rows[j].row_idx

\* rows 2 and 10 walked out of order, row 10 first
C21_Witness ==
  /\ TableDone
  /\ Len(table.rows) = 2
  /\ \E i, j \in InSpec :
       /\ i < j
       /\ table.items[i].oid[2] = "10"
       /\ table.items[j].oid[2] = "2"

\* C22: in every row, each declared column holds the raw value of the entry
\* top.column.row when the walk result has it and None otherwise; nothing
\* else is in the row, so entries of undeclared columns influence nothing.
C22_CellsAreRawValuesOrNone ==
  TableDone =>
    \A r \in 1..Len(table.rows) :
      /\ DOMAIN table.rows[r].cells
           = {table.columns[c] : c \in DOMAIN table.columns}
      /\ \A c \in DOMAIN table.columns :
           LET hits == {i \in 1..Len(table.items) :
                          /\ table.items[i].oid[1] = c
                          /\ IntOf[table.items[i].oid[2]]
                               = table.rows[r].row_idx}
           IN IF hits = {}
              THEN table.rows[r].cells[table.columns[c]] = NoneV
              ELSE \A i \in hits :
                     table.rows[r].cells[table.columns[c]]
                       = table.items[i].val

\* a row with a missing declared column, next to an undeclared entry of
\* the same row
C22_Witness ==
  /\ TableDone
  /\ DOMAIN table.columns = {"2", "3"}
  /\ \E r \in 1..Len(table.rows) :
       /\ table.rows[r].cells["a"] # NoneV
       /\ table.rows[r].cells["b"] = NoneV
       /\ \E i \in 1..Len(table.items) :
            /\ table.items[i].oid[1] = "4"
            /\ IntOf[table.items[i].oid[2]] = table.rows[r].row_idx

\* ---------------------------------------------------------- value codec
\* Texts are sequences of one-character strings, so that formatting,
\* parsing and slicing are computed as the code computes them.
MaxWire == 4

HexDigits == <<"0", "1", "2", "3", "4", "5", "6", "7", "8", "9",
               "a", "b", "c", "d", "e", "f">>
WireChars == {"$", "0", "1", "c", "g"}
Octets == {0, 1, 10, 16, 192, 255}

\* text[a:b] of Python, for 0 <= a <= b
Slice(text, a, b) ==
  SubSeq(text, a + 1, IF b < Len(text) THEN b ELSE Len(text))

\* str(n) for base 10, hex(n)[2:] for base 16 (n >= 0)
RECURSIVE TextOfInt(_, _)
TextOfInt(n, base) ==
  IF n < base THEN <<HexDigits[n + 1]>>
  ELSE TextOfInt(n \div base, base) \o <<HexDigits[(n % base) + 1]>>

\* int(text, base): ValueError on the empty text and on any character
\* that is not a digit of the base
RECURSIVE DigitsValue(_, _)
DigitsValue(text, base) ==
  IF text = <<>> THEN 0
  ELSE LET d == CHOOSE i \in 1..base : HexDigits[i] = text[Len(text)]
       IN DigitsValue(SubSeq(text, 1, Len(text) - 1), base) * base + (d - 1)

IntOfText(text, base) ==
  IF /\ text # <<>>
     /\ \A k \in 1..Len(text) : \E i \in 1..base : HexDigits[i] = text[k]
  THEN [kind |-> "ok", val |-> DigitsValue(text, base)]
  ELSE [kind |-> "exc", exc |-> "ValueError"]

NoneResult == [kind |-> "none"]

extract_int(strvalue, zero_is_none) ==
  IF strvalue = <<>> THEN NoneResult
  ELSE LET ival == IntOfText(strvalue, 10)
       IN IF ival.kind = "exc" THEN ival
          ELSE IF zero_is_none /\ ival.val = 0 THEN NoneResult
          ELSE ival

extract_ip(hexvalue, zero_is_none) ==
  LET part(k) == IntOfText(Slice(hexvalue, 2*k - 1, 2*k + 1), 16)
  IN IF \E k \in 1..4 : part(k).kind = "exc"
     THEN [kind |-> "exc", exc |-> "ValueError"]
     ELSE LET ipaddr == TextOfInt(part(1).val, 10) \o <<".">>
                        \o TextOfInt(part(2).val, 10) \o <<".">>
                        \o TextOfInt(part(3).val, 10) \o <<".">>
                        \o TextOfInt(part(4).val, 10)
          IN IF ipaddr = <<"0", ".", "0", ".", "0", ".", "0">> /\ zero_is_none
             THEN NoneResult
             ELSE [kind |-> "ok", val |-> ipaddr]

\* address.split('.')
RECURSIVE SplitDots(_)
SplitDots(text) ==
  IF \A k \in 1..Len(text) : text[k] # "." THEN <<text>>
  ELSE LET k == CHOOSE i \in 1..Len(text) :
                  text[i] = "." /\ \A j \in 1..(i-1) : text[j] # "."
       IN <<SubSeq(text, 1, k - 1)>>
          \o SplitDots(SubSeq(text, k + 1, Len(text)))

\* "{0:0>2s}".format(hex(int(decimal))[2:].lower())
tohex_unpadded(decimal) == TextOfInt(IntOfText(decimal, 10).val, 16)
tohex(decimal) ==
  LET h == TextOfInt(IntOfText(decimal, 10).val, 16)
  IN IF Len(h) < 2 THEN <<"0">> \o h ELSE h

RECURSIVE Concat(_)
Concat(texts) ==
  IF texts = <<>> THEN <<>> ELSE Head(texts) \o Concat(Tail(texts))

ipv4_to_dollar(address) ==
  LET parts == SplitDots(address)
  IN <<"$">> \o Concat([i \in 1..Len(parts) |-> tohex(parts[i])])

ZeroIPv6 == <<"$">> \o [i \in 1..32 |-> "0"]

extract_ipv6(hexvalue, zero_is_none) ==
  IF hexvalue = ZeroIPv6 /\ zero_is_none THEN NoneResult
  ELSE [kind |-> "ok",
        val |-> Slice(hexvalue, 1, 5)
                \o Concat([i \in 1..7 |->
                     <<":">> \o Slice(hexvalue, 4*i + 1, 4*i + 5)])]

extract_mac(mac) ==
  [kind |-> "ok",
   val |-> Slice(mac, 1, 3)
           \o Concat([i \in 1..5 |->
                <<":">> \o Slice(mac, 2*i + 1, 2*i + 3)])]

\* the dotted text of four octets
AddressOf(o) ==
  TextOfInt(o[1], 10) \o <<".">> \o TextOfInt(o[2], 10) \o <<".">>
  \o TextOfInt(o[3], 10) \o <<".">> \o TextOfInt(o[4], 10)

\* the input is an address to encode, or a wire text to decode: any short
\* text, the wire form of an address, or the all-zero IPv6 wire text
CodecInit ==
  /\ HubInit
  /\ walkText = <<>>
  /\ walkOut = NoWalk
  /\ table = Unused
  /\ stats = Unused
  /\ pair = Unused
  /\ \/ \E o \in Octets \X Octets \X Octets \X Octets :
          codec = [stage |-> "address", text |-> AddressOf(o)]
     \/ \E n \in 0..MaxWire : \E w \in [1..n -> WireChars] :
          codec = [stage |-> "wire", text |-> w]
     \/ \E o \in Octets \X Octets \X Octets \X Octets :
          codec = [stage |-> "wire", text |-> ipv4_to_dollar(AddressOf(o))]
     \/ codec = [stage |-> "wire", text |-> ZeroIPv6]

\* encode an address and decode the result, with and without zero_is_none
RoundTrip ==
  /\ codec.stage = "address"
  /\ LET wire == ipv4_to_dollar(codec.text)
     IN codec' = [stage |-> "roundtrip", text |-> codec.text, wire |-> wire,
                  back |-> extract_ip(wire, TRUE),
                  literal |-> extract_ip(wire, FALSE)]
  /\ UNCHANGED <<session, alive, stack, ret, sent, loginSent, commitWrites,
                 changes, nonce, attrs, lastAuth, walkText, walkOut, table,
                 stats, pair>>

\* decode a wire text with each extract function, default arguments
Decode ==
  /\ codec.stage = "wire"
  /\ codec' = [stage |-> "decoded", text |-> codec.text,
               ip |-> extract_ip(codec.text, TRUE),
               ipv6 |-> extract_ipv6(codec.text, TRUE),
               mac |-> extract_mac(codec.text),
               int |-> extract_int(codec.text, TRUE)]
  /\ UNCHANGED <<session, alive, stack, ret, sent, loginSent, commitWrites,
                 changes, nonce, attrs, lastAuth, walkText, walkOut, table,
                 stats, pair>>

CodecNext == RoundTrip \/ Decode

CodecSpec == CodecInit /\ [][CodecNext]_vars

\* "$" followed by exactly 8 lowercase hex digits
IsDollar8(wire) ==
  /\ Len(wire) = 9
  /\ wire[1] = "$"
  /\ \A k \in 2..9 : \E i \in 1..16 : HexDigits[i] = wire[k]

ZeroAddress == <<"0", ".", "0", ".", "0", ".", "0">>

\* C23 (as stated): for every valid IPv4 address, 0.0.0.0 included,
\* extract_ip(ipv4_to_dollar(a)) with default arguments equals a, and the
\* encoding is "$" followed by exactly 8 lowercase hex digits.
C23_AsStated ==
  codec.stage = "roundtrip" =>
    /\ codec.back = [kind |-> "ok", val |-> codec.text]
    /\ IsDollar8(codec.wire)

\* C23 (amended): the round trip gives the address back for every valid
\* address other than 0.0.0.0; for 0.0.0.0 the default call returns None
\* and the call with zero_is_none=False returns "0.0.0.0"; the encoding is
\* always "$" followed by exactly 8 lowercase hex digits.
C23_RoundTripExceptZero ==
  codec.stage = "roundtrip" =>
    /\ IsDollar8(codec.wire)
    /\ codec.literal = [kind |-> "ok", val |-> codec.text]
    /\ codec.text # ZeroAddress =>
         codec.back = [kind |-> "ok", val |-> codec.text]
    /\ codec.text = ZeroAddress => codec.back = NoneResult

\* 10.0.1.255: octets of one and two hex digits, zero octets inside
C23_Witness ==
  /\ codec.stage = "roundtrip"
  /\ codec.text = AddressOf(<<10, 0, 1, 255>>)
  /\ codec.wire = <<"$", "0", "a", "0", "0", "0", "1", "f", "f">>
  /\ codec.back.kind = "ok"

C23_WitnessZero ==
  /\ codec.stage = "roundtrip"
  /\ codec.text = ZeroAddress
  /\ codec.back = NoneResult

\* C24 (as stated): extract_ip, extract_ipv6, extract_mac and extract_int
\* never fail, whatever the wire text.
C24_AsStated ==
  codec.stage = "decoded" =>
    /\ codec.ip.kind # "exc"
    /\ codec.ipv6.kind # "exc"
    /\ codec.mac.kind # "exc"
    /\ codec.int.kind # "exc"

\* ---------------------------------------------------------- collect_stats
\* The wrapper that @collect_stats puts around a method, and
\* _increment_counter.  stats.counters is self.counters (a dict: only the
\* keys written so far exist), stats.calls the instrumented calls in
\* progress (innermost last), stats.exc whether an exception is travelling
\* up through them, stats.started the number of calls begun so far.
MaxCalls == 4

Instrumented == {"snmp_get", "_get", "login"}

\* the instrumented methods a method calls: snmp_get calls _get, _get
\* calls login on a 401, login calls _get
Callees == [m \in Instrumented |->
              CASE m = "snmp_get" -> {"_get"}
                [] m = "_get" -> {"login"}
                [] m = "login" -> {"_get"}]

\* time.time() - start, in ticks
Elapsed == {0, 1}

CallsKey(name) == <<name, "calls">>
SecsKey(name) == <<name, "secs">>

\* self.counters[name] = self.counters.get(name, 0) + increment
IncrementCounter(counters, key, increment) ==
  [k \in DOMAIN counters \cup {key} |->
     IF k = key
     THEN (IF key \in DOMAIN counters THEN counters[key] ELSE 0) + increment
     ELSE counters[k]]

StatsInit ==
  /\ HubInit
  /\ walkText = <<>>
  /\ walkOut = NoWalk
  /\ table = Unused
  /\ codec = Unused
  /\ pair = Unused
  /\ stats = [counters |-> <<>>, calls |-> <<>>, exc |-> FALSE, started |-> 0,
              ended |-> "none"]

\* wrapper, up to the call of func
StatsEnter(name) ==
  /\ ~stats.exc
  /\ stats.started < MaxCalls
  /\ IF stats.calls = <<>> THEN TRUE
     ELSE name \in Callees[stats.calls[Len(stats.calls)]]
  /\ stats' = [stats EXCEPT
                 !.counters = IncrementCounter(@, CallsKey(name), 1),
                 !.calls = Append(@, name),
                 !.started = @ + 1,
                 !.ended = "none"]
  /\ UNCHANGED <<session, alive, stack, ret, sent, loginSent, commitWrites,
                 changes, nonce, attrs, lastAuth, walkText, walkOut, table,
                 codec, pair>>

\* func returned: the wrapper adds the elapsed time and returns the result
StatsReturn(elapsed) ==
  /\ ~stats.exc
  /\ stats.calls # <<>>
  /\ LET name == stats.calls[Len(stats.calls)]
     IN stats' = [stats EXCEPT
                    !.counters = IncrementCounter(@, SecsKey(name), elapsed),
                    !.calls = SubSeq(@, 1, Len(@) - 1),
                    !.ended = name]
  /\ UNCHANGED <<session, alive, stack, ret, sent, loginSent, commitWrites,
                 changes, nonce, attrs, lastAuth, walkText, walkOut, table,
                 codec, pair>>

\* func raised, or a method it called did: nothing in the wrapper catches
\* the exception, which leaves the wrapper at the call of func
StatsRaise ==
  /\ stats.calls # <<>>
  /\ LET name == stats.calls[Len(stats.calls)]
     IN stats' = [stats EXCEPT
                    !.calls = SubSeq(@, 1, Len(@) - 1),
                    !.exc = Len(stats.calls) > 1,
                    !.ended = name]
  /\ UNCHANGED <<session, alive, stack, ret, sent, loginSent, commitWrites,
                 changes, nonce, attrs, lastAuth, walkText, walkOut, table,
                 codec, pair>>

StatsNext ==
  \/ \E name \in Instrumented : StatsEnter(name)
  \/ \E elapsed \in Elapsed : StatsReturn(elapsed)
  \/ StatsRaise

StatsSpec == StatsInit /\ [][StatsNext]_vars

\* C25 (as stated): when an instrumented call has ended, by returning or
\* by failing, both its ':calls' and its ':secs' counter have been
\* incremented, so both exist.  (That no step decreases or removes a
\* counter is the other half of the statement; no step of the wrapper
\* does.)
C25_AsStated ==
  stats.ended # "none" =>
    /\ CallsKey(stats.ended) \in DOMAIN stats.counters
    /\ SecsKey(stats.ended) \in DOMAIN stats.counters

\* ------------------------------------------------------- two Hub instances
\* Two hubs used side by side, their calls interleaved: pair.hubs[i] holds
\* the attributes that __init__ creates on instance i, pair.op[i] the call
\* that instance i is in ("idle": none), pair.actor the instance that took
\* the last step.  A call is taken in two steps, its entry and its end, so
\* that one instance can act while the other is inside a call (waiting
\* for the device, sleeping after a 500, re-logging in).
MaxOps == 3

Instances == {1, 2}

\* the object that holds attribute attr of instance self: every attribute
\* is assigned on self in __init__, none is a class attribute
OwnerShared(self, attr) == IF attr = "counters" THEN 1 ELSE self
Owner(self, attr) == self

PairInit ==
  /\ HubInit
  /\ walkText = <<>>
  /\ walkOut = NoWalk
  /\ table = Unused
  /\ codec = Unused
  /\ stats = Unused
  /\ pair = [hubs |-> [i \in Instances |->
                         [credential |-> NoCredential, username |-> NoneV,
                          password |-> NoneV, nonce |-> i, counters |-> 0,
                          unapplied |-> FALSE]],
             op |-> [i \in Instances |-> "idle"],
             actor |-> 0]

\* entry of a call on instance self: the wrapper of collect_stats counts it
PairBegin(self, op) ==
  /\ pair.op[self] = "idle"
  /\ pair.hubs[Owner(self, "counters")].counters < MaxOps
  /\ pair' = [hubs |-> [pair.hubs EXCEPT
                          ![Owner(self, "counters")].counters = @ + 1],
              op |-> [pair.op EXCEPT ![self] = op],
              actor |-> self]
  /\ UNCHANGED <<session, alive, stack, ret, sent, loginSent, commitWrites,
                 changes, nonce, attrs, lastAuth, walkText, walkOut, table,
                 codec, stats>>

\* end of the call: what it has stored by then.  outcome "ok": it returned;
\* "relogin": a 401 was answered by a successful re-login with the stored
\* username and password, then it returned; "fail": it raised
PairEnd(self, outcome, token) ==
  LET op == pair.op[self]
      held == pair.hubs[Owner(self, "credential")].credential # NoCredential
      flag == pair.hubs[Owner(self, "unapplied")].unapplied
      Put(h, attr, val) == [h EXCEPT ![Owner(self, attr)][attr] = val]
      relogged(h) ==
        IF outcome = "relogin" /\ held
        THEN Put(Put(Put(h, "credential", token),
                     "username", h[Owner(self, "username")].username),
                 "password", h[Owner(self, "password")].password)
        ELSE h
      after ==
        CASE op = "login" ->
               IF outcome = "ok"
               THEN Put(Put(Put(pair.hubs, "credential", token),
                            "username", "admin"), "password", "admin")
               ELSE pair.hubs
          [] op = "logout" ->
               IF held
               THEN Put(Put(Put(pair.hubs, "credential", NoCredential),
                            "username", NoneV), "password", NoneV)
               ELSE pair.hubs
          [] op = "snmp_get" -> relogged(pair.hubs)
          [] op = "snmp_set" ->
               IF outcome = "fail" THEN relogged(pair.hubs)
               ELSE Put(relogged(pair.hubs), "unapplied", TRUE)
          [] op = "apply_settings" ->
               IF flag /\ outcome # "fail"
               THEN Put(relogged(pair.hubs), "unapplied", FALSE)
               ELSE IF flag THEN relogged(pair.hubs) ELSE pair.hubs
  IN /\ op # "idle"
     /\ outcome = "relogin" =>
          op \in {"snmp_get", "snmp_set", "apply_settings"}
     /\ pair' = [hubs |-> after,
                 op |-> [pair.op EXCEPT ![self] = "idle"],
                 actor |-> self]
     /\ UNCHANGED <<session, alive, stack, ret, sent, loginSent, commitWrites,
                    changes, nonce, attrs, lastAuth, walkText, walkOut, table,
                    codec, stats>>

PairNext ==
  \/ \E self \in Instances :
       \E op \in {"login", "logout", "snmp_get", "snmp_set",
                  "apply_settings"} :
         PairBegin(self, op)
  \/ \E self \in Instances :
       \E outcome \in {"ok", "relogin", "fail"} : \E token \in Tokens :
         PairEnd(self, outcome, token)

PairSpec == PairInit /\ [][PairNext]_vars

PfTableOid == "1.3.6.1.4.1.4115.1.20.1.1.4.12.1"

\* row indexes the device's table may hold
PfRows == {1, 2, 10}

\* the doset calls, in program order
PfWritesDataFirst ==
  <<[col |-> 3, val |-> "ext_port_start"], [col |-> 4, val |-> "ext_port_end"],
    [col |-> 5, val |-> "proto"], [col |-> 6, val |-> "local_addr_type"],
    [col |-> 7, val |-> "local_addr"], [col |-> 9, val |-> "local_port_start"],
    [col |-> 10, val |-> "local_port_end"],
    [col |-> 11, val |-> "5"], [col |-> 11, val |-> "1"]>>
PfWrites ==
  <<[col |-> 11, val |-> "5"],
    [col |-> 3, val |-> "ext_port_start"], [col |-> 4, val |-> "ext_port_end"],
    [col |-> 5, val |-> "proto"], [col |-> 6, val |-> "local_addr_type"],
    [col |-> 7, val |-> "local_addr"], [col |-> 9, val |-> "local_port_start"],
    [col |-> 10, val |-> "local_port_end"],
    [col |-> 11, val |-> "1"]>>

CallPfAdd ==
  /\ Idle /\ alive
  /\ Call([fn |-> "portforward_add", pc |-> "start", rows |-> {},
           new_idx |-> 0, writes |-> <<>>, changed |-> FALSE,
           before |-> unapplied])

\* oldlist = self.portforward_list()
PfStart ==
  /\ TopIs("portforward_add", "start")
  /\ Running
  /\ stack' = Below \o
              <<[Top EXCEPT !.pc = "list"],
                [fn |-> "snmp_walk", pc |-> "start", oid |-> PfTableOid]>>
  /\ ret' = NoRet
  /\ UNCHANGED <<session, alive, sent, loginSent, commitWrites, changes,
                 nonce, attrs, lastAuth, purevars>>

\* what a finished portforward_add reports
PfInfo(f) ==
  [rows |-> f.rows, new_idx |-> f.new_idx, writes |-> f.writes,
   changed |-> f.changed, before |-> f.before, pc |-> f.pc]

\* new_idx = max(map(int, [x.row_idx for x in oldlist])): max() of an empty
\* sequence raises ValueError, so the `is None` test that follows never
\* sees None; then the first doset
PfListed ==
  /\ TopIs("portforward_add", "list")
  /\ Returned
  /\ IF ret.kind = "exc"
     THEN /\ stack' = Below
          /\ ret' = Raise("portforward_add", ret.exc, PfInfo(Top))
     ELSE \E rows \in SUBSET PfRows :
            IF rows = {}
            THEN /\ stack' = Below
                 /\ ret' = Raise("portforward_add", "ValueError",
                                 PfInfo([Top EXCEPT !.pc = "max"]))
            ELSE LET most == CHOOSE r \in rows : \A q \in rows : q <= r
                 IN /\ stack' = Below \o
                         <<[Top EXCEPT !.pc = "set", !.rows = rows,
                                       !.new_idx = most + 1,
                                       !.writes = <<PfWrites[1]>>],
                           [fn |-> "snmp_set", pc |-> "start",
                            oid |-> PfTableOid]>>
                    /\ ret' = NoRet
  /\ UNCHANGED <<session, alive, sent, loginSent, commitWrites, changes,
                 nonce, attrs, lastAuth, purevars>>

\* a doset has ended: an exception leaves portforward_add, otherwise the
\* next doset follows, and self.apply_settings() after the last
PfSetDone ==
  /\ TopIs("portforward_add", "set")
  /\ Returned
  /\ LET f == [Top EXCEPT !.changed = Top.changed
                                       \/ (ret.kind = "ok" /\ ret.val)]
     IN IF ret.kind = "exc"
        THEN /\ stack' = Below
             /\ ret' = Raise("portforward_add", ret.exc, PfInfo(Top))
        ELSE IF Len(f.writes) < Len(PfWrites)
        THEN /\ stack' = Below \o
                  <<[f EXCEPT !.writes = Append(f.writes,
                                                PfWrites[Len(f.writes) + 1])],
                    [fn |-> "snmp_set", pc |-> "start", oid |-> PfTableOid]>>
             /\ ret' = NoRet
        ELSE /\ stack' = Below \o
                  <<[f EXCEPT !.pc = "apply"],
                    [fn |-> "apply_settings", pc |-> "start", changes |-> 0,
                     afterApply |-> FALSE]>>
             /\ ret' = NoRet
  /\ UNCHANGED <<session, alive, sent, loginSent, commitWrites, changes,
                 nonce, attrs, lastAuth, purevars>>

PfApplied ==
  /\ TopIs("portforward_add", "apply")
  /\ Returned
  /\ stack' = Below
  /\ ret' = IF ret.kind = "exc"
            THEN Raise("portforward_add", ret.exc, PfInfo(Top))
            ELSE Ok("portforward_add", NoneV, PfInfo(Top))
  /\ UNCHANGED <<session, alive, sent, loginSent, commitWrites, changes,
                 nonce, attrs, lastAuth, purevars>>

\* portforward_add on a hub as constructed: no credential is held, so a
\* 401 is not followed by a re-login and the steps of login stay out
PfNext ==
  \/ CallPfAdd \/ PfStart \/ PfListed \/ PfSetDone \/ PfApplied
  \/ GetRequest
  \/ SnmpWalkStart \/ SnmpWalkDone
  \/ SnmpSetStart \/ SnmpSetDone
  \/ ApplyStart \/ ApplyDone

PfSpec == Init /\ [][PfNext]_vars

\* the portforward_add frame, when the running call is one
PfFrames == {i \in 1..Len(stack) : stack[i].fn = "portforward_add"}

\* C31 (as stated): portforward_add writes at a row index that no existing
\* row uses, 1 when the table is empty and the largest index + 1 otherwise,
\* and never fails merely because the table is empty.
C31_AsStated ==
  /\ \A i \in PfFrames :
       stack[i].writes # <<>> =>
         /\ stack[i].new_idx \notin stack[i].rows
         /\ stack[i].new_idx =
              IF stack[i].rows = {} THEN 1
              ELSE 1 + CHOOSE r \in stack[i].rows :
                         \A q \in stack[i].rows : q <= r
  /\ ~(Ended("portforward_add") /\ ret.kind = "exc" /\ ret.info.pc = "max")

\* columns of the nine writes in the order stated: row status, the seven
\* data columns, row status
StatedColumns == <<11, 3, 4, 5, 6, 7, 9, 10, 11>>

\* the writes made so far follow the stated order
InStatedOrder(writes) ==
  /\ Len(writes) <= 9
  /\ \A k \in 1..Len(writes) :
       /\ writes[k].col = StatedColumns[k]
       /\ k = 1 => writes[k].val = "5"
       /\ k = 9 => writes[k].val = "1"

\* order of the writes, the commit write only after the nine, and no
\* commit write after a failed write
PfOrderAndFailure ==
  /\ \A i \in PfFrames :
       /\ InStatedOrder(stack[i].writes)
       /\ commitWrites <= 1
       /\ commitWrites = 1 =>
            (stack[i].pc = "apply" /\ Len(stack[i].writes) = 9)
       /\ (stack[i].changed /\ stack[i].pc # "apply") => unapplied
  /\ Ended("portforward_add") =>
       /\ InStatedOrder(ret.info.writes)
       /\ commitWrites <= 1
  /\ (Ended("portforward_add") /\ ret.info.pc # "apply") =>
       /\ ret.kind = "exc"
       /\ commitWrites = 0
       /\ ret.info.changed => unapplied
       /\ unapplied <=> (ret.info.changed \/ ret.info.before)

\* C32 (as stated): the writes follow the fixed order; the commit OID is
\* written only after all nine writes have succeeded, and then exactly
\* once; when one of the nine fails there is no commit write and the flag
\* stays set if an earlier write changed the device.
C32_AsStated ==
  /\ PfOrderAndFailure
  /\ (Ended("portforward_add") /\ ret.info.pc = "apply") => commitWrites = 1

\* C32 (amended): as stated, except that after the nine writes the commit
\* OID is written once when the unapplied-settings flag is set by then (one
\* of the writes changed the device, or a change was pending before) and
\* not at all otherwise.
C32_OrderedWritesThenCommit ==
  /\ PfOrderAndFailure
  /\ (Ended("portforward_add") /\ ret.info.pc = "apply") =>
       /\ Len(ret.info.writes) = 9
       /\ commitWrites =
            IF ret.info.changed \/ ret.info.before THEN 1 ELSE 0
       /\ ret.kind = "ok" => ~unapplied

\* nine writes, one of which changed the device, and the commit write
C32_Witness ==
  /\ Ended("portforward_add")
  /\ ret.kind = "ok"
  /\ Len(ret.info.writes) = 9
  /\ ret.info.changed
  /\ commitWrites = 1
  /\ ret.info.new_idx = 11

\* the fifth write failed after an earlier one had changed the device
C32_WitnessFailed ==
  /\ Ended("portforward_add")
  /\ ret.kind = "exc"
  /\ Len(ret.info.writes) = 5
  /\ ret.info.changed
  /\ unapplied
  /\ commitWrites = 0

====
